---- MODULE Spec2Model ----
(***************************************************************************)
(* State-machine model of the TPC-C web application's order service:       *)
(* OrderService.execute_new_order and OrderService.execute_delivery        *)
(* (tpcc-webapp/services/order_service.py) running against the NeonDB      *)
(* connector (tpcc-webapp/database/neon_connector.py), plus                *)
(* PaymentService.execute_payment (services/payment_service.py).           *)
(*                                                                         *)
(* The connector opens its connection with autocommit = True, so every     *)
(* SQL statement is its own committed transaction.  Each action below is   *)
(* therefore one SQL statement of a handler together with the Python code  *)
(* that runs up to the next statement; callers interleave between          *)
(* statements.                                                             *)
(***************************************************************************)
EXTENDS Integers, Sequences, FiniteSets, TLC

\* ------------------------------------------------------------------ bounds
\* longest item list a caller passes
MaxItems == 2
\* calls (execute_new_order, execute_delivery) started in one behaviour
MaxCalls == 2

\* concurrent callers (request threads sharing the connector)
Procs == {1, 2}
\* rows of the warehouse / district / customer tables
Warehouses == {1, 2}
\* range(1, 11) in execute_delivery, scaled down to two districts
Districts == {1, 2}
Customers == {1}
\* "Carrier ID (1-10)", scaled down
Carriers == {1, 2}

\* SQL NULL / Python None in a nullable numeric column or local
NULL == -1000

\* ------------------------------------------------------- reference data
\* item table as loaded: i_id -> i_price; no operation of the services
\* writes it
InitialItem == (1 :> 5) @@ (2 :> 3)

\* Python values of an item's 'warehouse_id' entry: an int, or a decimal
\* string given as its digit sequence
PyInt(n) == [t |-> "int", v |-> n]
PyStr(digits) == [t |-> "str", v |-> digits]

RECURSIVE ParseDigits(_)
ParseDigits(ds) ==
    IF Len(ds) = 0 THEN 0
    ELSE 10 * ParseDigits(SubSeq(ds, 1, Len(ds) - 1)) + ds[Len(ds)]

\* int(x)
int(x) == IF x.t = "str" THEN ParseDigits(x.v) ELSE x.v

\* The request items callers pass (dicts; the 'warehouse_id' key may be
\* absent, an int or a numeric string), in a master order; a request's item
\* list is a prefix of it.
ItemCatalog ==
    << [i_id |-> 1, quantity |-> 1],
       [i_id |-> 2, quantity |-> 2, warehouse_id |-> PyStr(<<2>>)],
       [i_id |-> 1, quantity |-> 2, warehouse_id |-> PyInt(1)] >>

\* the prefixes of catalog of length at most n
Prefixes(catalog, n) ==
    { SubSeq(catalog, 1, k) : k \in { j \in 0..n : j <= Len(catalog) } }

ItemLists == Prefixes(ItemCatalog, MaxItems)

\* ------------------------------------------------------------------ state
VARIABLES
    orders,        \* table orders: set of rows
    order_line,    \* table order_line: set of rows
    customer,      \* table customer: (c_w_id, c_d_id, c_id) -> row
    history,       \* table History: rows in insertion order
    item,          \* table item: i_id -> i_price
    now,           \* CURRENT_TIMESTAMP of the database, a logical clock
    pc,            \* per caller: the statement it executes next
    call,          \* per caller: arguments and locals of the running call
    result,        \* per caller: what its last finished call returned
    n_calls        \* calls started so far

vars == <<orders, order_line, customer, history, item, now, pc, call, result, n_calls>>

db == <<orders, order_line, customer, history, item, now>>

NoCall == [op |-> "none"]
NoResult == [kind |-> "none"]

CustomerKeys == Warehouses \X Districts \X Customers

\* An order the database may hold before the first call of a behaviour: what
\* execute_new_order(1, 1, 1, first two catalog items) stores when it runs
\* alone on an empty partition.
SeedOrder ==
    [o_id |-> 1, o_d_id |-> 1, o_w_id |-> 1, o_c_id |-> 1,
     o_carrier_id |-> NULL, o_ol_cnt |-> 2, o_all_local |-> 0]

SeedLines ==
    { [ol_o_id |-> 1, ol_d_id |-> 1, ol_w_id |-> 1, ol_number |-> 1,
       ol_i_id |-> 1, ol_supply_w_id |-> 1, ol_quantity |-> 1,
       ol_amount |-> 5, ol_delivery_d |-> NULL],
      [ol_o_id |-> 1, ol_d_id |-> 1, ol_w_id |-> 1, ol_number |-> 2,
       ol_i_id |-> 2, ol_supply_w_id |-> 2, ol_quantity |-> 2,
       ol_amount |-> 6, ol_delivery_d |-> NULL] }

Init ==
    /\ \/ orders = {} /\ order_line = {}
       \/ orders = {SeedOrder} /\ order_line = SeedLines
    /\ customer = [k \in CustomerKeys |-> [c_balance |-> 0, c_delivery_cnt |-> 0]]
    /\ history = << >>
    /\ item = InitialItem
    /\ now = 1
    /\ pc = [p \in Procs |-> "idle"]
    /\ call = [p \in Procs |-> NoCall]
    /\ result = [p \in Procs |-> NoResult]
    /\ n_calls = 0

\* ---------------------------------------------------------------- helpers
Max(S) == CHOOSE m \in S : \A x \in S : x <= m
Min(S) == CHOOSE m \in S : \A x \in S : m <= x

RECURSIVE SumRows(_)
\* sum of ol_amount over the finite set of order_line rows
SumRows(rows) ==
    IF rows = {} THEN 0
    ELSE LET r == CHOOSE x \in rows : TRUE
         IN  r.ol_amount + SumRows(rows \ {r})

\* SQL a + b: NULL if either operand is NULL
SqlAdd(a, b) == IF a = NULL \/ b = NULL THEN NULL ELSE a + b

\* rows of orders WHERE o_w_id = w AND o_d_id = d
OrdersOf(ords, w, d) == { o \in ords : o.o_w_id = w /\ o.o_d_id = d }

\* rows of order_line WHERE ol_w_id = w AND ol_d_id = d AND ol_o_id = o
LinesOf(lines, w, d, o) ==
    { l \in lines : l.ol_w_id = w /\ l.ol_d_id = d /\ l.ol_o_id = o }

\* NextOrderId with "+ 2" for "+ 1"
NextOrderId_PlusTwo(ords, w, d) ==
    LET ids == { o.o_id : o \in OrdersOf(ords, w, d) }
    IN  (IF ids = {} THEN 0 ELSE Max(ids)) + 2

\* NextOrderId with the warehouse missing from the WHERE clause
NextOrderId_AnyWarehouse(ords, w, d) ==
    LET ids == { o.o_id : o \in { x \in ords : x.o_d_id = d } }
    IN  (IF ids = {} THEN 0 ELSE Max(ids)) + 1

\* NextOrderId with the district missing from the WHERE clause
NextOrderId_AnyDistrict(ords, w, d) ==
    LET ids == { o.o_id : o \in { x \in ords : x.o_w_id = w } }
    IN  (IF ids = {} THEN 0 ELSE Max(ids)) + 1

\* SELECT COALESCE(MAX(o_id), 0) + 1 FROM orders WHERE o_w_id = w AND o_d_id = d
NextOrderId(ords, w, d) ==
    LET ids == { o.o_id : o \in OrdersOf(ords, w, d) }
    IN  (IF ids = {} THEN 0 ELSE Max(ids)) + 1

\* OldestUndelivered with ORDER BY o_id DESC
OldestUndelivered_Newest(ords, w, d) ==
    LET pending == { o \in OrdersOf(ords, w, d) : o.o_carrier_id = NULL }
    IN  IF pending = {} THEN {}
        ELSE { o \in pending : o.o_id = Max({ x.o_id : x \in pending }) }

\* OldestUndelivered without "o_w_id = %s AND"
OldestUndelivered_AnyWarehouse(ords, w, d) ==
    LET pending == { o \in ords : o.o_d_id = d /\ o.o_carrier_id = NULL }
    IN  IF pending = {} THEN {}
        ELSE { o \in pending : o.o_id = Min({ x.o_id : x \in pending }) }

\* OldestUndelivered without "AND o_carrier_id IS NULL"
OldestUndelivered_AnyCarrier(ords, w, d) ==
    LET all == OrdersOf(ords, w, d)
    IN  IF all = {} THEN {}
        ELSE { o \in all : o.o_id = Min({ x.o_id : x \in all }) }

\* SELECT o_id, o_c_id ... WHERE o_carrier_id IS NULL ORDER BY o_id ASC LIMIT 1
\* (the result set: empty, or the one oldest undelivered row)
OldestUndelivered(ords, w, d) ==
    LET pending == { o \in OrdersOf(ords, w, d) : o.o_carrier_id = NULL }
    IN  IF pending = {} THEN {}
        ELSE { o \in pending : o.o_id = Min({ x.o_id : x \in pending }) }

RECURSIVE SumAtCurrentPrices(_)
\* sum of ol_quantity * i_price over the rows, at the prices item holds now
SumAtCurrentPrices(rows) ==
    IF rows = {} THEN 0
    ELSE LET r == CHOOSE x \in rows : TRUE
         IN  r.ol_quantity * item[r.ol_i_id] + SumAtCurrentPrices(rows \ {r})

\* SumAmount joined with item on current prices instead of SUM(ol_amount)
SumAmount_CurrentPrices(lines, w, d, o) ==
    LET rows == LinesOf(lines, w, d, o)
    IN  IF rows = {} THEN NULL ELSE SumAtCurrentPrices(rows)

\* SELECT SUM(ol_amount): NULL over no rows
SumAmount(lines, w, d, o) ==
    LET rows == LinesOf(lines, w, d, o)
    IN  IF rows = {} THEN NULL ELSE SumRows(rows)

\* "i_id" not in item or "quantity" not in item
MissingFields(it) == "i_id" \notin DOMAIN it \/ "quantity" \notin DOMAIN it

\* FirstInvalid with the loop running to its end before it raises
FirstInvalid_Last(items) ==
    LET bad == { k \in 1..Len(items) : MissingFields(items[k]) }
    IN  IF bad = {} THEN 0 ELSE Max(bad)

\* 1-based position of the first item the validation loop rejects, 0 if none
FirstInvalid(items) ==
    LET bad == { k \in 1..Len(items) : MissingFields(items[k]) }
    IN  IF bad = {} THEN 0 ELSE Min(bad)

\* ConvertItem with item['warehouse_id'] = int(warehouse_id) for every item
ConvertItem_OrderWarehouse(it, w) ==
    [i_id |-> it.i_id, quantity |-> it.quantity, warehouse_id |-> int(PyInt(w))]

\* item['warehouse_id'] = int(item.get('warehouse_id', warehouse_id))
ConvertItem(it, w) ==
    [i_id |-> it.i_id,
     quantity |-> it.quantity,
     warehouse_id |-> int(IF "warehouse_id" \in DOMAIN it
                          THEN it.warehouse_id ELSE PyInt(w))]

ConvertItems(items, w) == [k \in 1..Len(items) |-> ConvertItem(items[k], w)]

\* AllLocal with "local_items > 0" for "local_items == len(items)"
AllLocal_AnyLocal(items, w) ==
    LET local_items == Cardinality({ k \in 1..Len(items) : items[k].warehouse_id = w })
    IN  IF local_items > 0 THEN 1 ELSE 0

\* all_local = 1 if local_items == len(items) else 0
AllLocal(items, w) ==
    LET local_items == Cardinality({ k \in 1..Len(items) : items[k].warehouse_id = w })
    IN  IF local_items = Len(items) THEN 1 ELSE 0

\* ------------------------------------------------- execute_new_order
\* Failure with error_message = str(e)
Failure_RawMessage(msg) ==
    [kind |-> "new_order", success |-> FALSE, error |-> msg]

\* the except clause: error_message = str(e) or "Unexpected error";
\* return {"success": False, "error": error_message}
Failure(msg) ==
    [kind |-> "new_order", success |-> FALSE,
     error |-> IF msg = "" THEN "Unexpected error" ELSE msg]

\* Success reporting the next free order id instead of the one just stored
Success_NextFreeId(c) ==
    [kind |-> "new_order", success |-> TRUE, order_id |-> c.order_id + 1,
     warehouse_id |-> c.warehouse_id, district_id |-> c.district_id,
     customer_id |-> c.customer_id, items_count |-> Len(c.items),
     all_local |-> c.all_local]

\* return {"success": True, "order_id": ..., ...}
Success(c) ==
    [kind |-> "new_order", success |-> TRUE, order_id |-> c.order_id,
     warehouse_id |-> c.warehouse_id, district_id |-> c.district_id,
     customer_id |-> c.customer_id, items_count |-> Len(c.items),
     all_local |-> c.all_local]

\* the call ends: its locals are gone and the caller holds what it returned
Return(p, res) ==
    /\ pc' = [pc EXCEPT ![p] = "returned"]
    /\ call' = [call EXCEPT ![p] = NoCall]
    /\ result' = [result EXCEPT ![p] = res]

\* the caller has consumed the result and is free to make its next call
Resume(p) ==
    /\ pc[p] = "returned"
    /\ pc' = [pc EXCEPT ![p] = "idle"]
    /\ result' = [result EXCEPT ![p] = NoResult]
    /\ UNCHANGED <<db, call, n_calls>>

\* The validation loop raises ValueError for the first item that lacks
\* 'i_id' or 'quantity'; the except clause returns the failure.
execute_new_order_invalid(p, w, d, c, items) ==
    /\ pc[p] = "idle"
    /\ n_calls < MaxCalls
    /\ FirstInvalid(items) # 0
    /\ n_calls' = n_calls + 1
    /\ Return(p, [kind |-> "new_order", success |-> FALSE,
                  error |-> "missing required fields",
                  item |-> FirstInvalid(items)])
    /\ UNCHANGED db

\* Validation passes; item warehouse ids are converted and all_local is
\* computed; the next statement is the SELECT of the next order id.
execute_new_order_begin(p, w, d, c, items) ==
    /\ pc[p] = "idle"
    /\ n_calls < MaxCalls
    /\ FirstInvalid(items) = 0
    /\ n_calls' = n_calls + 1
    /\ pc' = [pc EXCEPT ![p] = "fetch_order_id"]
    /\ call' = [call EXCEPT ![p] =
                  [op |-> "new_order", warehouse_id |-> w, district_id |-> d,
                   customer_id |-> c, items |-> ConvertItems(items, w),
                   all_local |-> AllLocal(ConvertItems(items, w), w),
                   order_id |-> NULL, line_number |-> 0]]
    /\ UNCHANGED <<db, result>>

\* order_id = SELECT COALESCE(MAX(o_id), 0) + 1 for the partition
execute_new_order_fetch_id(p) ==
    /\ pc[p] = "fetch_order_id"
    /\ call' = [call EXCEPT ![p].order_id =
                  NextOrderId(orders, call[p].warehouse_id, call[p].district_id)]
    /\ pc' = [pc EXCEPT ![p] = "insert_order"]
    /\ UNCHANGED <<db, result, n_calls>>

\* OrderRow with the default carrier 1 written for "NULL"
OrderRow_WithCarrier(c) ==
    [o_id |-> c.order_id, o_d_id |-> c.district_id, o_w_id |-> c.warehouse_id,
     o_c_id |-> c.customer_id, o_carrier_id |-> 1,
     o_ol_cnt |-> Len(c.items), o_all_local |-> c.all_local]

\* the row INSERT INTO orders writes (o_entry_d is left out; the column
\* region_created is carried where the call's region is modelled)
OrderRow(c) ==
    IF "region_created" \in DOMAIN c
    THEN [o_id |-> c.order_id, o_d_id |-> c.district_id,
          o_w_id |-> c.warehouse_id, o_c_id |-> c.customer_id,
          o_carrier_id |-> NULL, o_ol_cnt |-> Len(c.items),
          o_all_local |-> c.all_local, region_created |-> c.region_created]
    ELSE [o_id |-> c.order_id, o_d_id |-> c.district_id,
          o_w_id |-> c.warehouse_id, o_c_id |-> c.customer_id,
          o_carrier_id |-> NULL, o_ol_cnt |-> Len(c.items),
          o_all_local |-> c.all_local]

\* orders is keyed by (o_w_id, o_d_id, o_id): a second row with the key of a
\* stored row is rejected by the database
OrderKeyTaken(ords, c) ==
    \E o \in ords : /\ o.o_w_id = c.warehouse_id
                    /\ o.o_d_id = c.district_id
                    /\ o.o_id = c.order_id

\* INSERT INTO orders; with no items the line loop is empty and the call
\* returns success at once
execute_new_order_insert_order(p) ==
    /\ pc[p] = "insert_order"
    /\ ~OrderKeyTaken(orders, call[p])
    /\ orders' = orders \cup {OrderRow(call[p])}
    /\ IF Len(call[p].items) = 0
       THEN Return(p, Success(call[p]))
       ELSE /\ pc' = [pc EXCEPT ![p] = "insert_line"]
            /\ call' = [call EXCEPT ![p].line_number = 1]
            /\ UNCHANGED result
    /\ UNCHANGED <<order_line, customer, history, item, now, n_calls>>

\* INSERT INTO orders raises (duplicate key); the except clause returns the
\* failure
execute_new_order_duplicate_key(p) ==
    /\ pc[p] = "insert_order"
    /\ OrderKeyTaken(orders, call[p])
    /\ Return(p, Failure("duplicate key"))
    /\ UNCHANGED <<db, n_calls>>

\* LineRow with enumerate(items) counting from 0
LineRow_FromZero(c, n) ==
    [ol_o_id |-> c.order_id, ol_d_id |-> c.district_id,
     ol_w_id |-> c.warehouse_id, ol_number |-> n - 1,
     ol_i_id |-> c.items[n].i_id,
     ol_supply_w_id |-> c.items[n].warehouse_id,
     ol_quantity |-> c.items[n].quantity,
     ol_amount |-> c.items[n].quantity * item[c.items[n].i_id],
     ol_delivery_d |-> NULL]

\* the row INSERT INTO order_line writes for line_number n of call c
LineRow(c, n) ==
    [ol_o_id |-> c.order_id, ol_d_id |-> c.district_id,
     ol_w_id |-> c.warehouse_id, ol_number |-> n,
     ol_i_id |-> c.items[n].i_id,
     ol_supply_w_id |-> c.items[n].warehouse_id,
     ol_quantity |-> c.items[n].quantity,
     ol_amount |-> c.items[n].quantity * item[c.items[n].i_id],
     ol_delivery_d |-> NULL]

\* execute_new_order_insert_line that also charges the line's amount to the
\* customer (UPDATE customer SET c_balance = c_balance - amount)
execute_new_order_insert_line_Charging(p) ==
    /\ pc[p] = "insert_line"
    /\ call[p].items[call[p].line_number].i_id \in DOMAIN item
    /\ order_line' = order_line \cup {LineRow(call[p], call[p].line_number)}
    /\ customer' =
          [k \in DOMAIN customer |->
              IF k = <<call[p].warehouse_id, call[p].district_id, call[p].customer_id>>
              THEN [customer[k] EXCEPT !.c_balance =
                      SqlAdd(@, 0 - LineRow(call[p], call[p].line_number).ol_amount)]
              ELSE customer[k]]
    /\ IF call[p].line_number = Len(call[p].items)
       THEN Return(p, Success(call[p]))
       ELSE /\ call' = [call EXCEPT ![p].line_number = call[p].line_number + 1]
            /\ UNCHANGED <<pc, result>>
    /\ UNCHANGED <<orders, history, item, now, n_calls>>

\* One iteration of the line loop: SELECT i_price, then INSERT INTO
\* order_line with the price just read (the price is a local of the call, so
\* the read and the insert that follows are one step); after the last line
\* the call returns success.
execute_new_order_insert_line(p) ==
    /\ pc[p] = "insert_line"
    /\ call[p].items[call[p].line_number].i_id \in DOMAIN item
    /\ order_line' = order_line \cup {LineRow(call[p], call[p].line_number)}
    /\ IF call[p].line_number = Len(call[p].items)
       THEN Return(p, Success(call[p]))
       ELSE /\ call' = [call EXCEPT ![p].line_number = call[p].line_number + 1]
            /\ UNCHANGED <<pc, result>>
    /\ UNCHANGED <<orders, customer, history, item, now, n_calls>>

\* SELECT i_price finds no row: RuntimeError("Item price not found ..."),
\* returned as a failure; nothing that was inserted is undone
execute_new_order_price_not_found(p) ==
    /\ pc[p] = "insert_line"
    /\ call[p].items[call[p].line_number].i_id \notin DOMAIN item
    /\ Return(p, Failure("price not found"))
    /\ UNCHANGED <<db, n_calls>>

\* A statement of execute_new_order raises a storage error (the connector
\* re-raises it); the except clause returns the failure.
execute_new_order_storage_error(p) ==
    /\ pc[p] \in {"fetch_order_id", "insert_order", "insert_line"}
    /\ Return(p, Failure("storage error"))
    /\ UNCHANGED <<db, n_calls>>

\* A statement of execute_new_order raises an exception whose str() is empty
\* (one built without a message).
execute_new_order_silent_error(p) ==
    /\ pc[p] \in {"fetch_order_id", "insert_order", "insert_line"}
    /\ Return(p, Failure(""))
    /\ UNCHANGED <<db, n_calls>>

\* -------------------------------------------------- execute_delivery
\* execute_delivery has no return statement and no try: it returns None, or
\* the exception of a failed statement propagates to the caller
Delivered == [kind |-> "delivery", returned |-> "None"]
Raised(msg) == [kind |-> "delivery", raised |-> msg]

\* the caller starts a sweep of the warehouse at district 1
execute_delivery_begin(p, w, carrier) ==
    /\ pc[p] = "idle"
    /\ n_calls < MaxCalls
    /\ n_calls' = n_calls + 1
    /\ pc' = [pc EXCEPT ![p] = "find"]
    /\ call' = [call EXCEPT ![p] =
                  [op |-> "delivery", warehouse_id |-> w, carrier_id |-> carrier,
                   district_id |-> Min(Districts), order_id |-> NULL,
                   customer_id |-> NULL, total_amount |-> NULL]]
    /\ UNCHANGED <<db, result>>

\* NextDistrict with the loop left ("break") instead of continued
NextDistrict_Break(p) == Return(p, Delivered)

\* end of one iteration of "for district_id in range(1, 11)": the next
\* district, or after the last one connection.commit() (nothing is pending
\* under autocommit) and the return
NextDistrict(p) ==
    IF call[p].district_id + 1 \in Districts
    THEN /\ pc' = [pc EXCEPT ![p] = "find"]
         /\ call' = [call EXCEPT ![p] =
                       [call[p] EXCEPT !.district_id = call[p].district_id + 1,
                                       !.order_id = NULL,
                                       !.customer_id = NULL,
                                       !.total_amount = NULL]]
         /\ UNCHANGED result
    ELSE Return(p, Delivered)

\* 1. SELECT the oldest undelivered order of the district
execute_delivery_find(p) ==
    /\ pc[p] = "find"
    /\ LET found == OldestUndelivered(orders, call[p].warehouse_id,
                                      call[p].district_id)
       IN  IF found = {}
           THEN NextDistrict(p)
           ELSE LET o == CHOOSE x \in found : TRUE
                IN  /\ call' = [call EXCEPT ![p] =
                                  [call[p] EXCEPT !.order_id = o.o_id,
                                                  !.customer_id = o.o_c_id]]
                    /\ pc' = [pc EXCEPT ![p] = "assign"]
                    /\ UNCHANGED result
    /\ UNCHANGED <<db, n_calls>>

\* 2. UPDATE orders SET o_carrier_id = carrier WHERE key = (w, d, o)
AssignCarrier(ords, w, d, o, carrier) ==
    { IF x.o_w_id = w /\ x.o_d_id = d /\ x.o_id = o
      THEN [x EXCEPT !.o_carrier_id = carrier] ELSE x : x \in ords }

execute_delivery_assign(p) ==
    /\ pc[p] = "assign"
    /\ orders' = AssignCarrier(orders, call[p].warehouse_id, call[p].district_id,
                               call[p].order_id, call[p].carrier_id)
    /\ pc' = [pc EXCEPT ![p] = "stamp"]
    /\ UNCHANGED <<order_line, customer, history, item, now, call, result, n_calls>>

\* 3. UPDATE order_line SET ol_delivery_d = CURRENT_TIMESTAMP WHERE order = (w, d, o)
StampLines(lines, w, d, o, ts) ==
    { IF l.ol_w_id = w /\ l.ol_d_id = d /\ l.ol_o_id = o
      THEN [l EXCEPT !.ol_delivery_d = ts] ELSE l : l \in lines }

execute_delivery_stamp(p) ==
    /\ pc[p] = "stamp"
    /\ order_line' = StampLines(order_line, call[p].warehouse_id,
                                call[p].district_id, call[p].order_id, now)
    /\ now' = now + 1
    /\ pc' = [pc EXCEPT ![p] = "sum"]
    /\ UNCHANGED <<orders, customer, history, item, call, result, n_calls>>

\* 4. total_amount = SELECT SUM(ol_amount) of the order's lines
execute_delivery_sum(p) ==
    /\ pc[p] = "sum"
    /\ call' = [call EXCEPT ![p].total_amount =
                  SumAmount(order_line, call[p].warehouse_id,
                            call[p].district_id, call[p].order_id)]
    /\ pc' = [pc EXCEPT ![p] = "settle"]
    /\ UNCHANGED <<db, result, n_calls>>

\* 5. UPDATE customer SET c_balance = c_balance + total,
\*    c_delivery_cnt = c_delivery_cnt + 1 WHERE key = (w, d, c)
CreditCustomer(cust, w, d, c, total) ==
    [k \in DOMAIN cust |->
        IF k = <<w, d, c>>
        THEN [c_balance |-> SqlAdd(cust[k].c_balance, total),
              c_delivery_cnt |-> cust[k].c_delivery_cnt + 1]
        ELSE cust[k]]

execute_delivery_settle(p) ==
    /\ pc[p] = "settle"
    /\ customer' = CreditCustomer(customer, call[p].warehouse_id,
                                  call[p].district_id, call[p].customer_id,
                                  call[p].total_amount)
    /\ NextDistrict(p)
    /\ UNCHANGED <<orders, order_line, history, item, now, n_calls>>

\* A statement of execute_delivery raises a storage error: the connector logs
\* and re-raises it and execute_delivery does not catch it, so the sweep ends
\* where it is.
execute_delivery_storage_error(p) ==
    /\ pc[p] \in {"find", "assign", "stamp", "sum", "settle"}
    /\ Return(p, Raised("storage error"))
    /\ UNCHANGED <<db, n_calls>>

\* --------------------------------------------------- execute_payment
\* The amounts callers pay
Amounts == {7}

\* INSERT INTO History ... RETURNING *, then commit: the call returns the row.
\* No other table is written.
execute_payment(p, w, d, c, amount) ==
    /\ pc[p] = "idle"
    /\ n_calls < MaxCalls
    /\ n_calls' = n_calls + 1
    /\ LET row == [h_w_id |-> w, h_c_d_id |-> d, h_c_w_id |-> w, h_d_id |-> d,
                   h_c_id |-> c, h_date |-> now, h_amount |-> amount,
                   h_data |-> "Payment transaction"]
       IN  /\ history' = Append(history, row)
           /\ Return(p, [kind |-> "payment", row |-> row])
    /\ UNCHANGED <<orders, order_line, customer, item, now>>

\* The INSERT raises: rollback, and the exception is re-raised to the caller
execute_payment_storage_error(p, w, d, c, amount) ==
    /\ pc[p] = "idle"
    /\ n_calls < MaxCalls
    /\ n_calls' = n_calls + 1
    /\ Return(p, [kind |-> "payment", raised |-> "storage error"])
    /\ UNCHANGED db

\* ------------------------------- requests outside the preconditions
\* requests with items that lack 'i_id' or 'quantity' (the first offender at
\* position 1, or at position 2 after a well-formed item)
MalformedCatalogs ==
    { << [quantity |-> 1], [i_id |-> 2], [i_id |-> 1, quantity |-> 1] >>,
      << [i_id |-> 1, quantity |-> 1], [i_id |-> 2], [quantity |-> 1] >> }

MalformedLists ==
    { l \in UNION { Prefixes(cat, MaxItems) : cat \in MalformedCatalogs } :
        FirstInvalid(l) # 0 }

\* requests with a zero and a negative quantity
NonPositiveCatalog ==
    << [i_id |-> 1, quantity |-> 0], [i_id |-> 2, quantity |-> -1] >>

\* requests naming i_id 3, which has no row in item (at position 1, or at
\* position 2 after an item that has one)
UnknownItemCatalogs ==
    { << [i_id |-> 3, quantity |-> 1] >>,
      << [i_id |-> 1, quantity |-> 1], [i_id |-> 3, quantity |-> 1],
         [i_id |-> 2, quantity |-> 1] >> }

\* the well-formed requests among these: they pass the validation loop
UncheckedLists ==
    (Prefixes(NonPositiveCatalog, MaxItems)
       \cup UNION { Prefixes(cat, MaxItems) : cat \in UnknownItemCatalogs })
    \ ItemLists

\* rows of the district table: (d_w_id, d_id)
district == Warehouses \X Districts

\* a district id callers may pass that has no row in district
UnknownDistricts == {3}

\* the warehouse and the existing district the callers of these requests
\* order from
RequestWarehouses == {1}
RequestDistricts == {1}

\* ------------------------------------------------------- specification
Next ==
    \E p \in Procs :
        \/ \E w \in Warehouses, d \in Districts, c \in Customers,
              items \in ItemLists :
                execute_new_order_begin(p, w, d, c, items)
        \/ execute_new_order_fetch_id(p)
        \/ execute_new_order_insert_order(p)
        \/ execute_new_order_duplicate_key(p)
        \/ execute_new_order_insert_line(p)
        \/ execute_new_order_storage_error(p)
        \/ \E w \in Warehouses, carrier \in Carriers : execute_delivery_begin(p, w, carrier)
        \/ execute_delivery_find(p)
        \/ execute_delivery_assign(p)
        \/ execute_delivery_stamp(p)
        \/ execute_delivery_sum(p)
        \/ execute_delivery_settle(p)
        \/ execute_delivery_storage_error(p)
        \/ Resume(p)

Spec == Init /\ [][Next]_vars

\* the order service together with the payment service on the same database
NextPayment ==
    \/ Next
    \/ \E p \in Procs, w \in Warehouses, d \in Districts, c \in Customers,
          amount \in Amounts :
            \/ execute_payment(p, w, d, c, amount)
            \/ execute_payment_storage_error(p, w, d, c, amount)

SpecPayment == Init /\ [][NextPayment]_vars

\* execute_new_order alone, with callers that also pass malformed items, items
\* with a non-positive quantity or an unknown i_id, and districts that have no
\* row in district
NextRequests ==
    \E p \in Procs :
        \/ \E w \in RequestWarehouses, d \in RequestDistricts, c \in Customers,
              items \in MalformedLists :
                execute_new_order_invalid(p, w, d, c, items)
        \/ \E w \in RequestWarehouses, d \in RequestDistricts, c \in Customers,
              items \in ItemLists \cup UncheckedLists :
                execute_new_order_begin(p, w, d, c, items)
        \/ \E w \in RequestWarehouses, d \in UnknownDistricts, c \in Customers,
              items \in ItemLists :
                execute_new_order_begin(p, w, d, c, items)
        \/ execute_new_order_fetch_id(p)
        \/ execute_new_order_insert_order(p)
        \/ execute_new_order_duplicate_key(p)
        \/ execute_new_order_insert_line(p)
        \/ execute_new_order_price_not_found(p)
        \/ execute_new_order_storage_error(p)
        \/ execute_new_order_silent_error(p)
        \/ Resume(p)

SpecRequests == Init /\ [][NextRequests]_vars

\* A second pending order of partition (1, 1): what execute_new_order(1, 1, 1,
\* first catalog item) stores when it runs alone after SeedOrder.
SeedOrder2 ==
    [o_id |-> 2, o_d_id |-> 1, o_w_id |-> 1, o_c_id |-> 1,
     o_carrier_id |-> NULL, o_ol_cnt |-> 1, o_all_local |-> 1]

SeedLines2 ==
    { [ol_o_id |-> 2, ol_d_id |-> 1, ol_w_id |-> 1, ol_number |-> 1,
       ol_i_id |-> 1, ol_supply_w_id |-> 1, ol_quantity |-> 1,
       ol_amount |-> 5, ol_delivery_d |-> NULL] }

InitSequential ==
    /\ \/ orders = {} /\ order_line = {}
       \/ orders = {SeedOrder} /\ order_line = SeedLines
       \/ orders = {SeedOrder, SeedOrder2} /\ order_line = SeedLines \cup SeedLines2
    /\ customer = [k \in CustomerKeys |-> [c_balance |-> 0, c_delivery_cnt |-> 0]]
    /\ history = << >>
    /\ item = InitialItem
    /\ now = 1
    /\ pc = [p \in Procs |-> "idle"]
    /\ call = [p \in Procs |-> NoCall]
    /\ result = [p \in Procs |-> NoResult]
    /\ n_calls = 0

\* every caller other than p is idle
Alone(p) == \A q \in Procs \ {p} : pc[q] = "idle"

\* The calls run one after another: a caller takes a step only while every
\* other caller is idle.  (INSERT INTO orders never meets a taken key then.)
NextSequential ==
    \E p \in Procs :
        \/ \E w \in Warehouses, d \in Districts, c \in Customers,
              items \in ItemLists :
                Alone(p) /\ execute_new_order_begin(p, w, d, c, items)
        \/ Alone(p) /\ execute_new_order_fetch_id(p)
        \/ Alone(p) /\ execute_new_order_insert_order(p)
        \/ Alone(p) /\ execute_new_order_insert_line(p)
        \/ Alone(p) /\ execute_new_order_storage_error(p)
        \/ \E w \in Warehouses, carrier \in Carriers :
                Alone(p) /\ execute_delivery_begin(p, w, carrier)
        \/ Alone(p) /\ execute_delivery_find(p)
        \/ Alone(p) /\ execute_delivery_assign(p)
        \/ Alone(p) /\ execute_delivery_stamp(p)
        \/ Alone(p) /\ execute_delivery_sum(p)
        \/ Alone(p) /\ execute_delivery_settle(p)
        \/ Alone(p) /\ execute_delivery_storage_error(p)
        \/ Alone(p) /\ Resume(p)

SpecSequential == InitSequential /\ [][NextSequential]_vars

\* a customer id callers may pass that has no row in customer
UnknownCustomers == {2}

\* the carrier_id arguments callers pass: execute_delivery tests neither the
\* range nor the presence of the value, so None (NULL) is among them
CarrierArguments == Carriers \cup {NULL}

\* The calls run one after another, with callers of execute_new_order that
\* also name a customer without a row and callers of execute_delivery that
\* also pass no carrier.
NextArguments ==
    \E p \in Procs :
        \/ \E w \in RequestWarehouses, d \in Districts,
              c \in Customers \cup UnknownCustomers, items \in ItemLists :
                Alone(p) /\ execute_new_order_begin(p, w, d, c, items)
        \/ Alone(p) /\ execute_new_order_fetch_id(p)
        \/ Alone(p) /\ execute_new_order_insert_order(p)
        \/ Alone(p) /\ execute_new_order_insert_line(p)
        \/ Alone(p) /\ execute_new_order_storage_error(p)
        \/ \E w \in RequestWarehouses, carrier \in CarrierArguments :
                Alone(p) /\ execute_delivery_begin(p, w, carrier)
        \/ Alone(p) /\ execute_delivery_find(p)
        \/ Alone(p) /\ execute_delivery_assign(p)
        \/ Alone(p) /\ execute_delivery_stamp(p)
        \/ Alone(p) /\ execute_delivery_sum(p)
        \/ Alone(p) /\ execute_delivery_settle(p)
        \/ Alone(p) /\ execute_delivery_storage_error(p)
        \/ Alone(p) /\ Resume(p)

SpecArguments == InitSequential /\ [][NextArguments]_vars

\* a value that is not there: the constructor argument region_name = None,
\* the variable REGION_NAME missing from the environment
Unset == "<unset>"

\* the region_name arguments OrderService is constructed with, and the
\* values of REGION_NAME in the environment of its process
RegionArguments == {Unset, "eu-west-1"}
EnvironValues == {Unset, "us-west-2"}

\* OrderService.__init__:
\* self.region_name = region_name or os.environ.get("REGION_NAME", "us-east-1")
region_name(arg, env) ==
    IF arg \notin {Unset, ""} THEN arg
    ELSE IF env # Unset THEN env ELSE "us-east-1"

\* execute_new_order: region_created = os.getenv("REGION_NAME", "default")
region_created(env) == IF env # Unset THEN env ELSE "default"

\* execute_new_order_begin on a service instance constructed with the
\* argument arg in a process whose REGION_NAME is env: the call also holds
\* the instance's region_name and its local region_created
execute_new_order_begin_region(p, w, d, c, items, arg, env) ==
    /\ pc[p] = "idle"
    /\ n_calls < MaxCalls
    /\ FirstInvalid(items) = 0
    /\ n_calls' = n_calls + 1
    /\ pc' = [pc EXCEPT ![p] = "fetch_order_id"]
    /\ call' = [call EXCEPT ![p] =
                  [op |-> "new_order", warehouse_id |-> w, district_id |-> d,
                   customer_id |-> c, items |-> ConvertItems(items, w),
                   all_local |-> AllLocal(ConvertItems(items, w), w),
                   order_id |-> NULL, line_number |-> 0,
                   region_name |-> region_name(arg, env),
                   region_created |-> region_created(env)]]
    /\ UNCHANGED <<db, result>>

\* a database that holds no order yet
InitEmpty == Init /\ orders = {}

\* The calls run one after another on service instances of any configured
\* region, starting from a database without orders.
NextRegion ==
    \E p \in Procs :
        \/ \E w \in RequestWarehouses, d \in Districts, c \in Customers,
              items \in ItemLists, arg \in RegionArguments,
              env \in EnvironValues :
                Alone(p) /\ execute_new_order_begin_region(p, w, d, c, items, arg, env)
        \/ Alone(p) /\ execute_new_order_fetch_id(p)
        \/ Alone(p) /\ execute_new_order_insert_order(p)
        \/ Alone(p) /\ execute_new_order_insert_line(p)
        \/ Alone(p) /\ execute_new_order_storage_error(p)
        \/ \E w \in RequestWarehouses, carrier \in Carriers :
                Alone(p) /\ execute_delivery_begin(p, w, carrier)
        \/ Alone(p) /\ execute_delivery_find(p)
        \/ Alone(p) /\ execute_delivery_assign(p)
        \/ Alone(p) /\ execute_delivery_stamp(p)
        \/ Alone(p) /\ execute_delivery_sum(p)
        \/ Alone(p) /\ execute_delivery_settle(p)
        \/ Alone(p) /\ execute_delivery_storage_error(p)
        \/ Alone(p) /\ Resume(p)

SpecRegion == InitEmpty /\ [][NextRegion]_vars

\* -------------------------------------------------------- order queries
\* table new_order, rows (no_w_id, no_d_id, no_o_id): the queries join it,
\* and no statement of the services inserts into it or deletes from it
new_order == {}

\* get_orders: CASE WHEN o_carrier_id IS NULL THEN 'New' ELSE 'Delivered' END
get_orders_status(o) == IF o.o_carrier_id = NULL THEN "New" ELSE "Delivered"

\* get_order_details: the orders row joined with its customer, LEFT JOIN
\* new_order: CASE WHEN no.no_o_id IS NOT NULL THEN 'New' ELSE 'Delivered' END
get_order_details_status(o) ==
    IF <<o.o_w_id, o.o_d_id, o.o_c_id>> \notin DOMAIN customer
    THEN "Order not found"
    ELSE IF <<o.o_w_id, o.o_d_id, o.o_id>> \in new_order
         THEN "New" ELSE "Delivered"

\* the items whose price is changed from outside the services, and the prices
\* they take
PricedItems == {1}
Prices == {4}

\* UPDATE item SET i_price = price WHERE i_id = i, run by someone other than
\* the services (they never write item)
item_price_change(i, price) ==
    /\ item[i] # price
    /\ item' = [item EXCEPT ![i] = price]
    /\ UNCHANGED <<orders, order_line, customer, history, now, pc, call,
                   result, n_calls>>

\* the calls run one after another while item prices change at any moment
NextPrice ==
    \/ NextSequential
    \/ \E i \in PricedItems, price \in Prices : item_price_change(i, price)

SpecPrice == InitSequential /\ [][NextPrice]_vars

\* ============================================================== claims
\* caller p runs execute_new_order / execute_delivery
InNewOrder(p) == call[p].op = "new_order"
InDelivery(p) == call[p].op = "delivery"

\* no call is running
Quiescent == \A p \in Procs : call[p] = NoCall

\* the stored orders of customer k = (w, d, c) that have a carrier
DeliveredOrdersOf(k) ==
    { o \in OrdersOf(orders, k[1], k[2]) :
        o.o_c_id = k[3] /\ o.o_carrier_id # NULL }

\* C1: for any interleaving of concurrent execute_new_order calls on one
\* partition, no two calls hold the same allocated order_id, and no two
\* stored rows of orders share (o_w_id, o_d_id, o_id).
C1_DistinctOrderIds ==
    /\ \A p, q \in Procs :
          ( /\ p # q
            /\ InNewOrder(p) /\ InNewOrder(q)
            /\ call[p].order_id # NULL /\ call[q].order_id # NULL
            /\ call[p].warehouse_id = call[q].warehouse_id
            /\ call[p].district_id = call[q].district_id )
          => call[p].order_id # call[q].order_id
    /\ \A o1, o2 \in orders :
          ( /\ o1.o_w_id = o2.o_w_id
            /\ o1.o_d_id = o2.o_d_id
            /\ o1.o_id = o2.o_id )
          => o1 = o2

\* C2: for any interleaving of two execute_delivery calls on one warehouse, a
\* pending order is claimed by at most one of them, and a customer is
\* credited at most once per delivered order (its delivery count never
\* exceeds the number of its orders that have a carrier).
C2_OrderClaimedOnce ==
    /\ \A p, q \in Procs :
          ( /\ p # q
            /\ InDelivery(p) /\ InDelivery(q)
            /\ call[p].order_id # NULL /\ call[q].order_id # NULL
            /\ call[p].warehouse_id = call[q].warehouse_id
            /\ call[p].district_id = call[q].district_id )
          => call[p].order_id # call[q].order_id
    /\ \A k \in CustomerKeys :
          customer[k].c_delivery_cnt <= Cardinality(DeliveredOrdersOf(k))

\* C3: every stored order that no running call is still writing has
\* o_ol_cnt equal to the number of its order_line rows; in particular a
\* failed or interrupted execute_new_order leaves no order behind whose line
\* count disagrees with its lines.
C3_LineCountMatchesLines ==
    \A o \in orders :
        (~\E p \in Procs :
            /\ InNewOrder(p)
            /\ pc[p] = "insert_line"
            /\ call[p].warehouse_id = o.o_w_id
            /\ call[p].district_id = o.o_d_id
            /\ call[p].order_id = o.o_id)
        => o.o_ol_cnt = Cardinality(LinesOf(order_line, o.o_w_id, o.o_d_id, o.o_id))

\* C4: the steps of a district's delivery apply all or nothing: whenever no
\* execute_delivery is working on an order of customer k, every order of k
\* that has a carrier has been credited to k (the delivery count is at least
\* the number of k's delivered orders).
C4_DeliveredImpliesCredited ==
    \A k \in CustomerKeys :
        (~\E p \in Procs :
            /\ InDelivery(p)
            /\ call[p].warehouse_id = k[1]
            /\ call[p].district_id = k[2]
            /\ call[p].customer_id = k[3])
        => customer[k].c_delivery_cnt >= Cardinality(DeliveredOrdersOf(k))

\* C5: when execute_delivery processes a district that has a pending order,
\* exactly that one order goes from carrier NULL to the given carrier, every
\* line of it is stamped, and when the district is done the owning customer's
\* balance has grown by exactly the sum of the order's line amounts and its
\* delivery count by exactly 1; no other order, line or customer changes.
C5_DeliveryEffect ==
    [][\A p \in Procs :
          LET w == call[p].warehouse_id
              d == call[p].district_id
              o == call[p].order_id
              mine(x) == x.o_w_id = w /\ x.o_d_id = d /\ x.o_id = o
          IN  /\ execute_delivery_assign(p) =>
                    /\ \A x \in orders : mine(x) => x.o_carrier_id = NULL
                    /\ \A x \in orders' : mine(x) => x.o_carrier_id = call[p].carrier_id
                    /\ { x \in orders' : ~mine(x) } = { x \in orders : ~mine(x) }
              /\ execute_delivery_stamp(p) =>
                    /\ \A l \in LinesOf(order_line', w, d, o) : l.ol_delivery_d # NULL
                    /\ order_line' \ LinesOf(order_line', w, d, o)
                         = order_line \ LinesOf(order_line, w, d, o)
              /\ execute_delivery_settle(p) =>
                    LET k == <<w, d, call[p].customer_id>>
                    IN  /\ \A x \in orders' : mine(x) => x.o_carrier_id = call[p].carrier_id
                        /\ \A l \in LinesOf(order_line', w, d, o) : l.ol_delivery_d # NULL
                        /\ customer'[k].c_balance
                             = customer[k].c_balance + SumRows(LinesOf(order_line', w, d, o))
                        /\ customer'[k].c_delivery_cnt = customer[k].c_delivery_cnt + 1
                        /\ \A k2 \in CustomerKeys \ {k} : customer'[k2] = customer[k2]
      ]_vars

\* C6: delivery is oldest-first per partition: the order a delivery has
\* selected is the pending order with the smallest o_id (every order of the
\* partition with a smaller o_id has a carrier), and every delivered order of
\* a partition has a smaller o_id than every pending order of it.
C6_OldestFirst ==
    /\ \A p \in Procs :
          (InDelivery(p) /\ call[p].order_id # NULL) =>
              \A o \in OrdersOf(orders, call[p].warehouse_id, call[p].district_id) :
                  o.o_id < call[p].order_id => o.o_carrier_id # NULL
    /\ \A o1, o2 \in orders :
          ( /\ o1.o_w_id = o2.o_w_id
            /\ o1.o_d_id = o2.o_d_id
            /\ o1.o_carrier_id # NULL
            /\ o2.o_carrier_id = NULL )
          => o1.o_id < o2.o_id

\* a partition holds a delivered order and a pending one
C6_Witness ==
    \E o1, o2 \in orders :
        /\ o1.o_w_id = o2.o_w_id
        /\ o1.o_d_id = o2.o_d_id
        /\ o1.o_carrier_id # NULL
        /\ o2.o_carrier_id = NULL

RECURSIVE SumOrders(_)
\* sum of the line amounts of the orders in S
SumOrders(S) ==
    IF S = {} THEN 0
    ELSE LET o == CHOOSE x \in S : TRUE
         IN  SumRows(LinesOf(order_line, o.o_w_id, o.o_d_id, o.o_id))
               + SumOrders(S \ {o})

\* a step of execute_new_order or of execute_payment
NewOrderOrPaymentStep ==
    \E p \in Procs :
        \/ InNewOrder(p) /\ call'[p] # call[p]
        \/ pc[p] = "idle" /\ call'[p] # NoCall /\ call'[p].op = "new_order"
        \/ pc[p] = "idle" /\ pc'[p] = "returned" /\ result'[p].kind = "payment"

\* C7: whenever no call is running, each customer's balance is its initial
\* balance (0) plus the line amounts of its delivered orders and its delivery
\* count is the number of those orders; execute_new_order and execute_payment
\* never change a customer row.
C7_BalanceIsSumOfDeliveries ==
    /\ [](Quiescent =>
            \A k \in CustomerKeys :
                /\ customer[k].c_balance = SumOrders(DeliveredOrdersOf(k))
                /\ customer[k].c_delivery_cnt = Cardinality(DeliveredOrdersOf(k)))
    /\ [][NewOrderOrPaymentStep => customer' = customer]_vars

\* C8: the order_id execute_new_order allocates is greater than every o_id
\* stored for its (warehouse, district), and it is 1 or the successor of a
\* stored o_id of that partition: max + 1, or 1 for an empty partition,
\* whatever the other partitions hold.
C8_NextOrderIdIsMaxPlusOne ==
    [][\A p \in Procs :
          execute_new_order_fetch_id(p) =>
              LET ids == { o.o_id : o \in OrdersOf(orders, call[p].warehouse_id,
                                                    call[p].district_id) }
                  got == call'[p].order_id
              IN  /\ \A i \in ids : i < got
                  /\ got = 1 \/ (got - 1) \in ids
                  /\ ids = {} => got = 1
      ]_vars

\* a call was allocated order_id 2 while another partition holds orders
C8_Witness ==
    \E p \in Procs :
        /\ pc[p] = "insert_order"
        /\ call[p].order_id = 2
        /\ \E o \in orders : <<o.o_w_id, o.o_d_id>>
                               # <<call[p].warehouse_id, call[p].district_id>>

\* caller p holds the success result of an execute_new_order call
ReturnedSuccess(p) ==
    /\ pc[p] = "returned"
    /\ result[p].kind = "new_order"
    /\ result[p].success

\* C9: when execute_new_order returns success with N items, exactly one
\* orders row has the returned key, its o_ol_cnt is N, and the order has
\* exactly N order_line rows whose ol_number values are exactly 1..N.
C9_LinesOfSuccessfulOrder ==
    \A p \in Procs :
        ReturnedSuccess(p) =>
            LET r == result[p]
                rows == { o \in OrdersOf(orders, r.warehouse_id, r.district_id) :
                            o.o_id = r.order_id }
                lines == LinesOf(order_line, r.warehouse_id, r.district_id, r.order_id)
            IN  /\ Cardinality(rows) = 1
                /\ \A o \in rows : o.o_ol_cnt = r.items_count
                /\ Cardinality(lines) = r.items_count
                /\ { l.ol_number : l \in lines } = 1..r.items_count

\* a call returned success for a two-item order
C9_Witness ==
    \E p \in Procs : ReturnedSuccess(p) /\ result[p].items_count = 2

\* the supply warehouse the request item means: its 'warehouse_id' as a
\* number, or the order's warehouse when the key is absent
EffectiveSupply(it, w) ==
    IF "warehouse_id" \in DOMAIN it THEN int(it.warehouse_id) ELSE w

\* the flag the claim asks for, for a request of the first n catalog items
ExpectedAllLocal(n, w) ==
    IF \A k \in 1..n : EffectiveSupply(ItemCatalog[k], w) = w THEN 1 ELSE 0

\* C10: the all_local flag execute_new_order stores and returns is 1 iff every
\* request item's effective supply warehouse equals the order's warehouse,
\* and 0 otherwise (a request of n items is the first n catalog items).
C10_AllLocalFlag ==
    /\ \A o \in orders : o.o_all_local = ExpectedAllLocal(o.o_ol_cnt, o.o_w_id)
    /\ \A p \in Procs :
          ReturnedSuccess(p) =>
              /\ result[p].all_local
                   = ExpectedAllLocal(result[p].items_count, result[p].warehouse_id)
              /\ \A o \in orders :
                    ( /\ o.o_w_id = result[p].warehouse_id
                      /\ o.o_d_id = result[p].district_id
                      /\ o.o_id = result[p].order_id )
                    => o.o_all_local = result[p].all_local

\* a call returned all_local = 0 for an order with a local and a remote item,
\* and another order with items is stored with all_local = 1
C10_Witness ==
    /\ \E p \in Procs :
          /\ ReturnedSuccess(p)
          /\ result[p].items_count = 2
          /\ result[p].all_local = 0
    /\ \E o \in orders : o.o_ol_cnt > 0 /\ o.o_all_local = 1

\* C11: when an item of the request lacks 'i_id' or 'quantity',
\* execute_new_order returns a failure that names the 1-based position of the
\* first such item (every item before it has both fields), the call ends
\* without allocating an order id, and no table changes.
C11_MalformedItemRejected ==
    [][\A p \in Procs, w \in RequestWarehouses, d \in RequestDistricts,
          c \in Customers, items \in MalformedLists :
          execute_new_order_invalid(p, w, d, c, items) =>
              /\ result'[p].kind = "new_order"
              /\ ~result'[p].success
              /\ result'[p].item \in 1..Len(items)
              /\ MissingFields(items[result'[p].item])
              /\ \A k \in 1..(result'[p].item - 1) : ~MissingFields(items[k])
              /\ call'[p] = NoCall
              /\ pc'[p] = "returned"
              /\ db' = db
      ]_vars

\* a call was rejected for its second item
C11_Witness ==
    \E p \in Procs :
        /\ pc[p] = "returned"
        /\ result[p].kind = "new_order"
        /\ ~result[p].success
        /\ "item" \in DOMAIN result[p]
        /\ result[p].item = 2

\* C12: an item with a zero or negative quantity never gets past validation
\* (no running execute_new_order holds such an item), and no stored
\* order_line row has a non-positive ol_quantity.
C12_NoNonPositiveQuantity ==
    /\ \A p \in Procs :
          InNewOrder(p) =>
              \A k \in 1..Len(call[p].items) : call[p].items[k].quantity > 0
    /\ \A l \in order_line : l.ol_quantity > 0

\* C13: when an item of the request names an i_id with no row in item,
\* execute_new_order returns a failure and the database then holds no orders
\* row and no order_line row of that call.
C13_UnknownItemNoPartialWrite ==
    [][\A p \in Procs :
          execute_new_order_price_not_found(p) =>
              /\ result'[p].kind = "new_order"
              /\ ~result'[p].success
              /\ ~OrderKeyTaken(orders', call[p])
              /\ LinesOf(order_line', call[p].warehouse_id,
                         call[p].district_id, call[p].order_id) = {}
      ]_vars

\* C14: for a (warehouse, district) with no row in district, the allocation
\* step of execute_new_order ends the call with a failure and yields no order
\* id; no call holds an order id for such a partition and no order is stored
\* for it.
C14_UnknownPartitionRejected ==
    [][\A p \in Procs :
          ( /\ execute_new_order_fetch_id(p)
            /\ <<call[p].warehouse_id, call[p].district_id>> \notin district )
          => /\ pc'[p] = "returned"
             /\ ~result'[p].success
             /\ orders' = orders
      ]_vars

\* C15: when the calls run one after another, an order that has a carrier is
\* never selected again: the order a delivery assigns its carrier to is
\* pending, a stored order that has a carrier and a stored line that has a
\* delivery timestamp are never rewritten, and a customer's delivery count
\* never exceeds the number of its delivered orders.
C15_NoRedelivery ==
    /\ [](\A k \in CustomerKeys :
            customer[k].c_delivery_cnt <= Cardinality(DeliveredOrdersOf(k)))
    /\ [][/\ \A p \in Procs :
               execute_delivery_assign(p) =>
                   \A x \in OrdersOf(orders, call[p].warehouse_id,
                                      call[p].district_id) :
                       x.o_id = call[p].order_id => x.o_carrier_id = NULL
          /\ \A x \in orders : x.o_carrier_id # NULL => x \in orders'
          /\ \A l \in order_line : l.ol_delivery_d # NULL => l \in order_line'
         ]_vars

\* two orders of one partition were delivered by two sweeps with different
\* carriers, and their customer was credited twice
C15_Witness ==
    \E o1, o2 \in orders :
        /\ o1.o_w_id = o2.o_w_id
        /\ o1.o_d_id = o2.o_d_id
        /\ o1.o_carrier_id # NULL
        /\ o2.o_carrier_id # NULL
        /\ o1.o_carrier_id # o2.o_carrier_id
        /\ customer[<<o1.o_w_id, o1.o_d_id, o1.o_c_id>>].c_delivery_cnt = 2

\* no order of warehouse w is pending
NoPending(w) == \A o \in orders : o.o_w_id = w => o.o_carrier_id # NULL

\* C16: execute_delivery on a warehouse in which no district has a pending
\* order changes nothing: from its first step on, every step of such a call
\* leaves every orders, order_line and customer row as it was, selects no
\* order, and either moves on to look at the next district or ends the call.
C16_DeliveryWithoutPendingIsNoOp ==
    [][\A p \in Procs :
          ( /\ \/ InDelivery(p) /\ call[p].order_id = NULL
               \/ \E w \in Warehouses, carrier \in Carriers :
                     execute_delivery_begin(p, w, carrier)
            /\ <<pc'[p], call'[p]>> # <<pc[p], call[p]>>
            /\ NoPending(IF InDelivery(p) THEN call[p].warehouse_id
                         ELSE call'[p].warehouse_id) )
          => /\ orders' = orders
             /\ order_line' = order_line
             /\ customer' = customer
             /\ \/ pc'[p] = "find" /\ call'[p].order_id = NULL
                \/ pc'[p] = "returned"
      ]_vars

\* a sweep has reached the last district of a warehouse whose orders were all
\* delivered before, by another carrier
C16_Witness ==
    \E p \in Procs :
        /\ InDelivery(p)
        /\ pc[p] = "find"
        /\ call[p].district_id = Max(Districts)
        /\ \E o \in orders : o.o_w_id = call[p].warehouse_id
        /\ \A o \in orders :
              o.o_w_id = call[p].warehouse_id
                => o.o_carrier_id \notin {NULL, call[p].carrier_id}

\* C17: when a statement of execute_delivery fails while the sweep is at
\* district d, the failure undoes nothing that was committed for the earlier
\* districts (no table changes), and district d is not left partially
\* applied: the order selected for d, if any, is still pending and its lines
\* carry no delivery timestamp.
C17_FailedDistrictNotPartial ==
    [][\A p \in Procs :
          execute_delivery_storage_error(p) =>
              /\ orders' = orders
              /\ order_line' = order_line
              /\ customer' = customer
              /\ call[p].order_id # NULL =>
                    /\ \A x \in OrdersOf(orders', call[p].warehouse_id,
                                          call[p].district_id) :
                          x.o_id = call[p].order_id => x.o_carrier_id = NULL
                    /\ \A l \in LinesOf(order_line', call[p].warehouse_id,
                                         call[p].district_id, call[p].order_id) :
                          l.ol_delivery_d = NULL
      ]_vars

\* C18: an order that execute_new_order is still creating (its header is
\* inserted, lines are still to be inserted) is never the order a concurrent
\* execute_delivery has selected.
C18_UnfinishedOrderNotSelected ==
    \A p, q \in Procs :
        ( /\ InDelivery(p)
          /\ call[p].order_id # NULL
          /\ InNewOrder(q)
          /\ pc[q] = "insert_line"
          /\ call[q].warehouse_id = call[p].warehouse_id
          /\ call[q].district_id = call[p].district_id )
        => call[q].order_id # call[p].order_id

\* C19: in every state, also after a failed or interrupted delivery, the lines
\* of an order carry a delivery timestamp if and only if the order has a
\* carrier (an order whose delivery is between its carrier assignment and
\* its stamping is left out), and a line's delivery timestamp, once set, is
\* never set again.
C19_StampedIffCarrier ==
    /\ [](\A o \in orders :
            (~\E p \in Procs :
                /\ InDelivery(p)
                /\ pc[p] = "stamp"
                /\ call[p].warehouse_id = o.o_w_id
                /\ call[p].district_id = o.o_d_id
                /\ call[p].order_id = o.o_id)
            => \A l \in LinesOf(order_line, o.o_w_id, o.o_d_id, o.o_id) :
                   (l.ol_delivery_d # NULL) <=> (o.o_carrier_id # NULL))
    /\ [][\A l \in order_line : l.ol_delivery_d # NULL => l \in order_line']_vars

\* C20: the row execute_new_order stores for a line has ol_amount equal to
\* its quantity times the item's price at that moment; a change of an item's
\* price changes no order_line and no customer row; and the amount a delivery
\* reads for an order and then adds to the customer's balance is the SQL sum
\* of the order's stored ol_amount values (NULL when no line is stored),
\* whatever the prices are then.
C20_AmountsFixedAtCreation ==
    [][/\ \A l \in order_line' \ order_line :
             (\A m \in order_line : <<m.ol_w_id, m.ol_d_id, m.ol_o_id, m.ol_number>>
                                      # <<l.ol_w_id, l.ol_d_id, l.ol_o_id, l.ol_number>>)
             => l.ol_amount = l.ol_quantity * item[l.ol_i_id]
       /\ item' # item => order_line' = order_line /\ customer' = customer
       /\ \A p \in Procs :
             execute_delivery_sum(p) =>
                 LET rows == LinesOf(order_line, call[p].warehouse_id,
                                     call[p].district_id, call[p].order_id)
                 IN  call'[p].total_amount
                       = IF rows = {} THEN NULL ELSE SumRows(rows)
       /\ \A p \in Procs :
             execute_delivery_settle(p) =>
                 LET k == <<call[p].warehouse_id, call[p].district_id,
                            call[p].customer_id>>
                 IN  customer'[k].c_balance
                       = SqlAdd(customer[k].c_balance, call[p].total_amount)
      ]_vars

\* item 1 now costs 4; the customer of the order created at price 5 was
\* credited its stored 5 + 6, and the customer of an order created at price 4
\* was credited 4
C20_Witness ==
    /\ item[1] = 4
    /\ customer[<<1, 1, 1>>].c_balance = 11
    /\ customer[<<1, 2, 1>>].c_balance = 4
    /\ \E l \in order_line :
          l.ol_delivery_d # NULL /\ l.ol_amount # l.ol_quantity * item[l.ol_i_id]

\* C21: execute_new_order never raises to its caller: a call ends only by
\* handing its caller a result, and every result of execute_new_order has
\* success true, or success false with a non-empty error message (for a
\* validation error, a missing item price, a failed id query or a storage
\* error at any statement).
C21_NewOrderAlwaysReturns ==
    /\ [](\A p \in Procs :
            result[p].kind = "new_order" =>
                /\ "raised" \notin DOMAIN result[p]
                /\ result[p].success \in BOOLEAN
                /\ ~result[p].success =>
                      "error" \in DOMAIN result[p] /\ result[p].error # "")
    /\ [][\A p \in Procs :
             (InNewOrder(p) /\ call'[p] = NoCall) =>
                 pc'[p] = "returned" /\ result'[p].kind = "new_order"
         ]_vars

\* a call failed on an exception without a message, and another one on an
\* item without a price
C21_Witness ==
    \E p, q \in Procs :
        /\ result[p].kind = "new_order"
        /\ ~result[p].success
        /\ result[p].error = "Unexpected error"
        /\ result[q].kind = "new_order"
        /\ ~result[q].success
        /\ result[q].error = "price not found"

\* C22: execute_delivery never raises to its caller: no result of
\* execute_delivery is a propagated exception.
C22_DeliveryNeverRaises ==
    \A p \in Procs :
        result[p].kind = "delivery" => "raised" \notin DOMAIN result[p]

\* C23: when INSERT INTO orders meets a taken key (two concurrent calls
\* computed the same next order_id), the losing call does not end there: it
\* goes back to allocate an order id again.
C23_ConflictIsRetried ==
    [][\A p \in Procs :
          execute_new_order_duplicate_key(p) =>
              InNewOrder(p)' /\ pc'[p] = "fetch_order_id"
      ]_vars

\* caller p takes a step of execute_new_order (its first step included)
NewOrderStepOf(p) ==
    \/ InNewOrder(p) /\ <<pc'[p], call'[p]>> # <<pc[p], call[p]>>
    \/ pc[p] = "idle" /\ call'[p] # NoCall /\ call'[p].op = "new_order"

\* C24: execute_new_order only adds rows: no step of it changes a customer,
\* item or History row or a stored orders or order_line row; INSERT INTO
\* orders adds exactly one orders row, each pass of the line loop adds exactly
\* the order_line row of the next line number, no other step adds a row; and
\* when a call returns success with N items the last line added was line N
\* (none for N = 0), so the call added one orders row and N order_line rows.
C24_NewOrderFrame ==
    [][\A p \in Procs :
          NewOrderStepOf(p) =>
              /\ customer' = customer
              /\ item' = item
              /\ history' = history
              /\ orders \subseteq orders'
              /\ order_line \subseteq order_line'
              /\ IF execute_new_order_insert_order(p)
                 THEN /\ Cardinality(orders' \ orders) = 1
                      /\ order_line' = order_line
                      /\ (pc'[p] = "returned") <=> (Len(call[p].items) = 0)
                 ELSE IF execute_new_order_insert_line(p)
                 THEN /\ orders' = orders
                      /\ Cardinality(order_line' \ order_line) = 1
                      /\ \A l \in order_line' \ order_line :
                            /\ l.ol_number = call[p].line_number
                            /\ <<l.ol_w_id, l.ol_d_id, l.ol_o_id>>
                                 = <<call[p].warehouse_id, call[p].district_id,
                                     call[p].order_id>>
                      /\ (pc'[p] = "returned")
                           <=> (call[p].line_number = Len(call[p].items))
                      /\ pc'[p] # "returned" =>
                            call'[p].line_number = call[p].line_number + 1
                 ELSE orders' = orders /\ order_line' = order_line
      ]_vars

\* a call returned success for a two-item order it added to a partition that
\* already held an order, after a customer had been credited a delivery
C24_Witness ==
    /\ \E p \in Procs :
          /\ ReturnedSuccess(p)
          /\ result[p].items_count = 2
          /\ result[p].order_id = 2
    /\ \E k \in CustomerKeys : customer[k].c_delivery_cnt > 0

\* C25: the success result of execute_new_order names a stored order: orders
\* holds a row with the result's (warehouse_id, district_id, order_id), and
\* that row's customer is the result's customer_id, its o_ol_cnt the result's
\* items_count and its o_all_local the result's all_local.
C25_ResultMatchesStoredOrder ==
    \A p \in Procs :
        ReturnedSuccess(p) =>
            \E o \in orders :
                /\ <<o.o_w_id, o.o_d_id, o.o_id>>
                     = <<result[p].warehouse_id, result[p].district_id,
                         result[p].order_id>>
                /\ o.o_c_id = result[p].customer_id
                /\ o.o_ol_cnt = result[p].items_count
                /\ o.o_all_local = result[p].all_local

\* a call returned success for order 2 of a partition, with one item that is
\* local
C25_Witness ==
    \E p \in Procs :
        /\ ReturnedSuccess(p)
        /\ result[p].order_id = 2
        /\ result[p].items_count = 1
        /\ result[p].all_local = 1

\* C26: when the sweep looks at a district that has no pending order, that
\* is not an error and changes no orders, order_line or customer row: the
\* sweep goes on to the next district of the same warehouse, or, after the
\* last district, returns normally.
C26_EmptyDistrictSkipped ==
    [][\A p \in Procs :
          ( /\ execute_delivery_find(p)
            /\ \A o \in OrdersOf(orders, call[p].warehouse_id,
                                  call[p].district_id) : o.o_carrier_id # NULL )
          => /\ orders' = orders
             /\ order_line' = order_line
             /\ customer' = customer
             /\ IF call[p].district_id + 1 \in Districts
                THEN /\ pc'[p] = "find"
                     /\ call'[p].district_id = call[p].district_id + 1
                     /\ call'[p].warehouse_id = call[p].warehouse_id
                     /\ call'[p].carrier_id = call[p].carrier_id
                ELSE /\ pc'[p] = "returned"
                     /\ result'[p] = Delivered
      ]_vars

\* a sweep has selected an order in district 2 of a warehouse whose district
\* 1 holds no order
C26_Witness ==
    \E p \in Procs :
        /\ InDelivery(p)
        /\ pc[p] = "assign"
        /\ call[p].district_id = 2
        /\ OrdersOf(orders, call[p].warehouse_id, 1) = {}

\* the (warehouse, district) of the execute_new_order call p runs
PartitionOf(p) == <<call[p].warehouse_id, call[p].district_id>>

\* C27: execute_new_order calls on different partitions are independent.
\* (a) When the only two calls so far are execute_new_order calls on
\* different partitions and both returned success, each got the order id its
\* partition's initial content determines (one more than the number of
\* orders the partition held at the start, which are its orders other than
\* the call's own), in whatever way their statements interleaved.  (b) A running call never waits: its next statement can
\* always be executed.  (c) A step of a call on another partition changes
\* neither the rows of a running call's partition nor its locals.
C27_PartitionsIndependent ==
    /\ [](\A p, q \in Procs :
            ( /\ p # q
              /\ n_calls = 2
              /\ ReturnedSuccess(p) /\ ReturnedSuccess(q)
              /\ <<result[p].warehouse_id, result[p].district_id>>
                   # <<result[q].warehouse_id, result[q].district_id>> )
            => result[p].order_id
                 = Cardinality(OrdersOf(orders, result[p].warehouse_id,
                                        result[p].district_id)
                                 \ { o \in orders : o.o_id = result[p].order_id })
                   + 1)
    /\ [](\A p \in Procs :
            InNewOrder(p) =>
                ENABLED ( \/ execute_new_order_fetch_id(p)
                          \/ execute_new_order_insert_order(p)
                          \/ execute_new_order_duplicate_key(p)
                          \/ execute_new_order_insert_line(p) ))
    /\ [][\A p, q \in Procs :
             ( /\ p # q
               /\ InNewOrder(p)
               /\ InNewOrder(q)
               /\ <<pc'[q], call'[q]>> # <<pc[q], call[q]>>
               /\ PartitionOf(q) # PartitionOf(p) )
             => /\ OrdersOf(orders', call[p].warehouse_id, call[p].district_id)
                     = OrdersOf(orders, call[p].warehouse_id, call[p].district_id)
                /\ { l \in order_line' : <<l.ol_w_id, l.ol_d_id>> = PartitionOf(p) }
                     = { l \in order_line : <<l.ol_w_id, l.ol_d_id>> = PartitionOf(p) }
                /\ pc'[p] = pc[p]
                /\ call'[p] = call[p]
         ]_vars

\* two calls on different partitions have both returned success, one for a
\* partition that held an order at the start and one for an empty partition
C27_Witness ==
    \E p, q \in Procs :
        /\ p # q
        /\ n_calls = 2
        /\ ReturnedSuccess(p) /\ ReturnedSuccess(q)
        /\ result[p].order_id = 2
        /\ result[q].order_id = 1
        /\ result[q].items_count > 0

\* the order ids stored for partition (w, d)
StoredIds(w, d) == { o.o_id : o \in OrdersOf(orders, w, d) }

\* C28: with the calls run one after another, successful or failed, the order
\* ids stored for a partition are always exactly 1..m with no gap, and the
\* order id a successful call returns is the greatest id stored for its
\* partition, so it is greater than every id returned for it before.
C28_GapFreeIncreasingIds ==
    /\ \A w \in Warehouses, d \in Districts :
          StoredIds(w, d) = 1..Cardinality(OrdersOf(orders, w, d))
    /\ \A p \in Procs :
          ReturnedSuccess(p) =>
              /\ result[p].order_id
                   \in StoredIds(result[p].warehouse_id, result[p].district_id)
              /\ \A i \in StoredIds(result[p].warehouse_id, result[p].district_id) :
                    i <= result[p].order_id

\* a call returned success with order id 3 after an earlier call had failed
\* and left order 2 of the partition without its lines
C28_Witness ==
    \E p \in Procs :
        /\ ReturnedSuccess(p)
        /\ result[p].order_id = 3
        /\ \E o \in OrdersOf(orders, result[p].warehouse_id, result[p].district_id) :
              /\ o.o_id = 2
              /\ o.o_ol_cnt > Cardinality(LinesOf(order_line, o.o_w_id, o.o_d_id, 2))

\* C29: the order_line row with line number k stores the i_id and the
\* quantity of the k-th item of the request (requests are prefixes of
\* ItemCatalog), and its supply warehouse is that item's 'warehouse_id' when
\* the item gives one and the order's warehouse when it does not.
C29_LineStoresKthItem ==
    \A l \in order_line :
        /\ l.ol_number \in 1..Len(ItemCatalog)
        /\ l.ol_i_id = ItemCatalog[l.ol_number].i_id
        /\ l.ol_quantity = ItemCatalog[l.ol_number].quantity
        /\ l.ol_supply_w_id
             = IF "warehouse_id" \in DOMAIN ItemCatalog[l.ol_number]
               THEN int(ItemCatalog[l.ol_number].warehouse_id)
               ELSE l.ol_w_id

\* an order of warehouse 1, district 2 has its first line supplied by the
\* order's warehouse (none given) and its second line by warehouse 2 (given
\* as the string "2")
C29_Witness ==
    /\ \E l \in order_line :
          /\ <<l.ol_w_id, l.ol_d_id, l.ol_number>> = <<1, 2, 1>>
          /\ l.ol_supply_w_id = 1
    /\ \E l \in order_line :
          /\ <<l.ol_w_id, l.ol_d_id, l.ol_number>> = <<1, 2, 2>>
          /\ l.ol_supply_w_id = 2

\* delivery p has selected the order (w, d, o)
Selected(p, w, d, o) ==
    /\ InDelivery(p)
    /\ <<call[p].warehouse_id, call[p].district_id, call[p].order_id>> = <<w, d, o>>

\* C30: every order is pending when it is stored: a row that appears in
\* orders has carrier NULL and a row that appears in order_line has delivery
\* timestamp NULL; and they stay so until a delivery selects the order: a
\* pending orders row changes only in the carrier-assignment step, and an
\* unstamped order_line row only in the stamping step, of an execute_delivery
\* that has selected that order.
C30_PendingUntilSelected ==
    [][/\ \A o \in orders' :
             (\A x \in orders : <<x.o_w_id, x.o_d_id, x.o_id>>
                                  # <<o.o_w_id, o.o_d_id, o.o_id>>)
             => o.o_carrier_id = NULL
       /\ \A l \in order_line' :
             (\A x \in order_line :
                 <<x.ol_w_id, x.ol_d_id, x.ol_o_id, x.ol_number>>
                   # <<l.ol_w_id, l.ol_d_id, l.ol_o_id, l.ol_number>>)
             => l.ol_delivery_d = NULL
       /\ \A o \in orders :
             (o.o_carrier_id = NULL /\ o \notin orders')
             => \E p \in Procs : /\ Selected(p, o.o_w_id, o.o_d_id, o.o_id)
                                  /\ execute_delivery_assign(p)
       /\ \A l \in order_line :
             (l.ol_delivery_d = NULL /\ l \notin order_line')
             => \E p \in Procs : /\ Selected(p, l.ol_w_id, l.ol_d_id, l.ol_o_id)
                                  /\ execute_delivery_stamp(p)
      ]_vars

\* an order that a call stored in warehouse 2 is pending with an unstamped
\* line, while an order of warehouse 1 has been delivered and stamped
C30_Witness ==
    /\ \E o \in orders :
          /\ o.o_w_id = 2
          /\ o.o_carrier_id = NULL
          /\ \E l \in LinesOf(order_line, 2, o.o_d_id, o.o_id) : l.ol_delivery_d = NULL
    /\ \E l \in order_line : l.ol_w_id = 1 /\ l.ol_delivery_d # NULL

\* C31: execute_new_order with an empty item list stores no order: every
\* stored order has o_ol_cnt of at least 1, and the order a successful call
\* returned has at least one order_line row.
C31_EmptyListStoresNoOrder ==
    /\ \A o \in orders : o.o_ol_cnt >= 1
    /\ \A p \in Procs :
          ReturnedSuccess(p)
          => LinesOf(order_line, result[p].warehouse_id, result[p].district_id,
                     result[p].order_id) # {}

\* C32: what execute_delivery returns when its sweep completes is a report
\* with an entry per district (delivered or not, and which order_id), not an
\* empty value.
C32_DeliveryReportsPerDistrict ==
    \A p \in Procs :
        (result[p].kind = "delivery" /\ "returned" \in DOMAIN result[p])
        => /\ result[p].returned # "None"
           /\ DOMAIN result[p].returned = Districts

\* C33: every execute_delivery call ends only after it has visited every
\* district once, in ascending order: a sweep starts at the first district,
\* moves from a district to the next one only, and the call ends in the last
\* district.
C33_SweepVisitsEveryDistrict ==
    [][\A p \in Procs :
          /\ (InDelivery(p) /\ InDelivery(p)'
                /\ call'[p].district_id # call[p].district_id)
             => call'[p].district_id = call[p].district_id + 1
          /\ (~InDelivery(p) /\ InDelivery(p)')
             => call'[p].district_id = Min(Districts)
          /\ (InDelivery(p) /\ ~InDelivery(p)')
             => call[p].district_id = Max(Districts)
      ]_vars

\* C35: the amount execute_delivery adds to a balance is a defined number:
\* the total a sweep is about to credit is never NULL (it is 0 for an order
\* without order_line rows) and no customer's balance is NULL.
C35_CreditedAmountDefined ==
    /\ \A p \in Procs :
          (InDelivery(p) /\ pc[p] = "settle")
          => /\ call[p].total_amount # NULL
             /\ (LinesOf(order_line, call[p].warehouse_id, call[p].district_id,
                         call[p].order_id) = {}
                 => call[p].total_amount = 0)
    /\ \A k \in DOMAIN customer : customer[k].c_balance # NULL

\* C34: whatever carrier_id execute_delivery was called with (none
\* included), an order whose lines the sweep stamped and whose customer it
\* credited is no longer pending once the sweep has settled it, so that no
\* later sweep selects it again.
C34_SettledOrderNotPending ==
    [][\A p \in Procs :
          execute_delivery_settle(p)
          => \A o \in orders' :
                <<o.o_w_id, o.o_d_id, o.o_id>>
                  = <<call[p].warehouse_id, call[p].district_id, call[p].order_id>>
                => o.o_carrier_id # NULL
      ]_vars

\* C36: every stored order names a customer that has a row in customer for
\* the order's warehouse and district (a create naming a customer without a
\* row stores nothing), and the customer a sweep is about to credit exists.
C36_OrderCustomerExists ==
    /\ \A o \in orders : <<o.o_w_id, o.o_d_id, o.o_c_id>> \in DOMAIN customer
    /\ \A p \in Procs :
          (InDelivery(p) /\ pc[p] = "settle")
          => <<call[p].warehouse_id, call[p].district_id, call[p].customer_id>>
               \in DOMAIN customer

\* C37: get_orders and get_order_details report the same status for every
\* stored order: 'New' while its carrier is NULL and 'Delivered' once a
\* delivery has assigned one.
C37_QueriesAgreeOnStatus ==
    \A o \in orders :
        /\ get_orders_status(o) = get_order_details_status(o)
        /\ get_order_details_status(o)
             = IF o.o_carrier_id = NULL THEN "New" ELSE "Delivered"

\* C38: the region stored on an order is the region_name the service
\* instance that created it was configured with: the row INSERT INTO orders
\* adds carries the instance's region_name in region_created.
C38_StoredRegionIsConfigured ==
    [][\A p \in Procs :
          (InNewOrder(p) /\ execute_new_order_insert_order(p))
          => \A o \in orders' \ orders : o.region_created = call[p].region_name
      ]_vars

====
